---------------------------- MODULE Spec2Model ----------------------------
(***************************************************************************)
(* A model of the photo subsystem of the christmas-tree scene:             *)
(*   - Polaroids     (src/components/Polaroids.tsx): the selection effect, *)
(*                   the photoData memo and the per-frame target choice;   *)
(*   - PolaroidItem  (src/components/Polaroids.tsx): texture loading;      *)
(*   - UIOverlay     (src/components/UIOverlay.tsx): the file picker.      *)
(* Each component is driven by its props and browser events, which are the *)
(* nondeterministic inputs of the model.                                   *)
(***************************************************************************)
EXTENDS Integers, Sequences, FiniteSets, TLC

VARIABLES
    \* ---- Polaroids: props
    mode,               \* TreeMode prop
    uploadedPhotos,     \* string[] prop (a sequence of URLs)
    photoDisplayMode,   \* 'random' | 'sequential' prop
    photoLabels,        \* string[] prop (a sequence of texts)
    \* ---- Polaroids: state
    selectedPhotoIndex, \* useState<number | null>(null)
    sequentialIndex,    \* useState<number>(0)
    photoData,          \* the memoised PhotoData[]
    effectPending,      \* the selection effect is scheduled and has not run
    frameTarget,        \* per polaroid: what the last frame interpolated towards
    hist,               \* history of the selections made since mount
    \* ---- PolaroidItem, one entry per mounted polaroid
    url,                \* data.url prop
    photoLabel,         \* photoLabel prop
    texture,            \* useState<THREE.Texture | null>(null)
    error,              \* useState(false)
    loads,              \* the loader requests in flight, oldest first
    loaded,             \* how the request for the current url ended, if it did
    warned,             \* the url of the polaroid's last console.warn
    \* ---- UIOverlay: the file input
    selections,         \* per handled change event: its files and their readers
    uploads,            \* the calls of onPhotosUpload made so far
    \* ---- UIOverlay: the photo button and the label editor
    overlayProps,       \* hasPhotos, uploadedPhotos, photoLabels and which
                        \* optional callbacks are passed
    isEditingLabel,     \* useState(false): the edit modal is shown
    editingPhotoIndex,  \* useState<number | null>(null)
    tempLabelText,      \* useState(photoLabels[0] || "Happy Memories")
    pickerOpen,         \* the file picker of the file input is open
    calls,              \* the calls of onReplacePhotos, onPhotoLabelChange
                        \* and fileInputRef.current.click() made so far
    trace               \* the handler that ran last and the index last
                        \* passed to handlePhotoEdit

polaroidsVars == <<mode, uploadedPhotos, photoDisplayMode, photoLabels, selectedPhotoIndex,
                   sequentialIndex, photoData, effectPending, frameTarget, hist>>

itemVars == <<url, photoLabel, texture, error, loads, loaded, warned>>

overlayVars == <<selections, uploads>>

controlVars == <<overlayProps, isEditingLabel, editingPhotoIndex, tempLabelText,
                 pickerOpen, calls, trace>>

vars == <<polaroidsVars, itemVars, overlayVars, controlVars>>

\* What the steps of one component leave alone.
outsidePolaroids == <<itemVars, overlayVars, controlVars>>

outsideItem == <<polaroidsVars, overlayVars, controlVars>>

outsideOverlay == <<polaroidsVars, itemVars, controlVars>>

outsideControls == <<polaroidsVars, itemVars, overlayVars>>

----------------------------------------------------------------------------
(* Bounds of the model *)

MaxPhotos == 2

MaxInflight == 2

\* The number of files picked over all changes of the file input.
MaxFiles == 3

\* The number of changes of the file input with a non-empty file list.
MaxSelections == 2

\* The number of calls the photo button's handlers make.
MaxCalls == 3

\* The number of calls of onPhotoLabelChange.
MaxSaves == 1

(* Values of the program *)

NULL == -1

TreeMode == {"CHAOS", "FORMED", "PINCH"}

DisplayModes == {"random", "sequential"}

Urls == {"a.jpg", "b.jpg"}

\* The values one call of Math.random() is told apart by.
RandomValues == {0, 1}

PhotoLists == UNION {[1..n -> Urls] : n \in 0..MaxPhotos}

\* The texts of a photoLabels entry: empty, or a label the user saved.
LabelTexts == {"", "Xmas 2024"}

PhotoLabelLists == UNION {[1..n -> LabelTexts] : n \in 0..MaxPhotos}

----------------------------------------------------------------------------
(* Polaroids: photoData (useMemo) *)

\* A THREE.Vector3, kept symbolic: which formula produced it and from what.
Vector3(kind, i, count, rnd) == [kind |-> kind, i |-> i, count |-> count, rnd |-> rnd]

\* speed: 0.8 + Math.random() * 1.5, kept symbolic.
Speed(rnd) == <<"0.8 + 1.5 *", rnd>>

\* PhotoEntry with isSelected true for every photo while one is selected.
\* photoLabels && photoLabels[i] ? photoLabels[i] : "Happy Memories"
LabelOf(labels, i) ==
    IF i + 1 <= Len(labels) /\ labels[i + 1] # ""
    THEN labels[i + 1]
    ELSE "Happy Memories"

PhotoEntrySelectedWhenAny(photos, i, sel, rnd) ==
    [id         |-> i,
     url        |-> photos[i + 1],
     chaosPos   |-> Vector3("chaos", i, Len(photos), rnd),
     targetPos  |-> Vector3("cone", i, Len(photos), 0),
     pinchPos   |-> Vector3("front", 0, 0, 0),
     speed      |-> Speed(rnd),
     isSelected |-> (sel # NULL),
     label      |-> LabelOf(photoLabels, i)]

\* One entry of the loop body: data.push({...}); i is the 0-based index and
\* rnd the outcome of the Math.random() calls of this iteration (distance,
\* heightSpread and speed), taken together.
PhotoEntry(photos, i, sel, rnd) ==
    [id         |-> i,
     url        |-> photos[i + 1],
     chaosPos   |-> Vector3("chaos", i, Len(photos), rnd),
     targetPos  |-> Vector3("cone", i, Len(photos), 0),
     pinchPos   |-> Vector3("front", 0, 0, 0),
     speed      |-> Speed(rnd),
     isSelected |-> (i = sel),
     label      |-> LabelOf(photoLabels, i)]

\* The draws of one run of the memo: one outcome per photo.
RandomDraws(n) == [1..n -> RandomValues]

\* The memo's factory, given the Math.random() draws of this run.
ComputePhotoData(photos, sel, draws) ==
    IF Len(photos) = 0 THEN << >>
    ELSE [k \in 1..Len(photos) |-> PhotoEntry(photos, k - 1, sel, draws[k])]

\* useMemo(..., [uploadedPhotos, selectedPhotoIndex]): what changes re-runs it.
MemoDepsChanged(photos, sel, photos2, sel2) ==
    photos2 # photos \/ sel2 # sel

\* The memo across a render: recomputed with fresh draws when a dependency
\* changed, kept otherwise.
MemoAfterRender(photos2, sel2) ==
    IF MemoDepsChanged(uploadedPhotos, selectedPhotoIndex, photos2, sel2)
    THEN {ComputePhotoData(photos2, sel2, d) : d \in RandomDraws(Len(photos2))}
    ELSE {photoData}

----------------------------------------------------------------------------
(* Polaroids: the selection effect *)

\* EffectResult without the else branch that resets the selection.
EffectResultNoReset(m, photos, sel, dmode, seq, rnd) ==
    IF m = "PINCH" /\ Len(photos) > 0
    THEN IF sel = NULL
         THEN IF dmode = "random"
              THEN [sel |-> rnd, seq |-> seq]
              ELSE [sel |-> seq, seq |-> (seq + 1) % Len(photos)]
         ELSE [sel |-> sel, seq |-> seq]
    ELSE [sel |-> sel, seq |-> seq]

\* EffectResult without the update of sequentialIndex.
EffectResultNoAdvance(m, photos, sel, dmode, seq, rnd) ==
    IF m = "PINCH" /\ Len(photos) > 0
    THEN IF sel = NULL
         THEN IF dmode = "random"
              THEN [sel |-> rnd, seq |-> seq]
              ELSE [sel |-> seq, seq |-> seq]
         ELSE [sel |-> sel, seq |-> seq]
    ELSE [sel |-> NULL, seq |-> seq]

\* EffectResult without the test that no photo is selected yet.
EffectResultReselects(m, photos, sel, dmode, seq, rnd) ==
    IF m = "PINCH" /\ Len(photos) > 0
    THEN IF dmode = "random"
         THEN [sel |-> rnd, seq |-> seq]
         ELSE [sel |-> seq, seq |-> (seq + 1) % Len(photos)]
    ELSE [sel |-> NULL, seq |-> seq]

\* The body of the effect, as the pair of state values it leaves:
\* for a given Math.random() outcome rnd in 0..length-1.
EffectResult(m, photos, sel, dmode, seq, rnd) ==
    IF m = "PINCH" /\ Len(photos) > 0
    THEN IF sel = NULL
         THEN IF dmode = "random"
              THEN [sel |-> rnd, seq |-> seq]
              ELSE [sel |-> seq, seq |-> (seq + 1) % Len(photos)]
         ELSE [sel |-> sel, seq |-> seq]
    ELSE [sel |-> NULL, seq |-> seq]

\* Math.floor(Math.random() * length)
RandomIndexes(photos) == IF Len(photos) = 0 THEN {0} ELSE 0..(Len(photos) - 1)

----------------------------------------------------------------------------
(* PolaroidItem: useFrame *)

\* FrameTarget with the mode tested before the selection: an unselected
\* polaroid in PINCH mode stays on the tree.
FrameTargetTreeInPinch(m, data) ==
    IF m = "PINCH" /\ data.isSelected THEN data.pinchPos
    ELSE IF m = "FORMED" \/ m = "PINCH" THEN data.targetPos
    ELSE data.chaosPos

\* 1. Position interpolation: the target of the lerp.
FrameTarget(m, data) ==
    IF m = "PINCH" /\ data.isSelected THEN data.pinchPos
    ELSE IF m = "FORMED" THEN data.targetPos
    ELSE data.chaosPos

\* 2. Rotation and scale: the branch taken and the scale it lerps towards.
FrameBranch(m, data) ==
    IF m = "PINCH" /\ data.isSelected THEN [branch |-> "pinch", scale |-> 4]
    ELSE IF m = "FORMED" THEN [branch |-> "formed", scale |-> 1]
    ELSE [branch |-> "chaos", scale |-> 1]

----------------------------------------------------------------------------
(* History of the selections, kept beside the program's state *)

HistCap(n) == IF n > 3 THEN 3 ELSE n

HistAfterEffect(sel2) ==
    IF selectedPhotoIndex = NULL /\ sel2 # NULL
    THEN [hist EXCEPT !.prev = sel2,
                      !.entries = HistCap(hist.entries + 1),
                      !.random = hist.random \/ photoDisplayMode = "random"]
    ELSE hist

----------------------------------------------------------------------------
(* PolaroidItem: texture loading and what is rendered *)

\* The polaroids of the texture-loading model.
Items == {1, 2}

Labels == {"Happy Memories", "Xmas 2024"}

NoTexture == "null"

\* No polaroid is mounted.
NoItems ==
    /\ url = << >>
    /\ photoLabel = << >>
    /\ texture = << >>
    /\ error = << >>
    /\ loads = << >>
    /\ loaded = << >>
    /\ warned = << >>

RemoveAt(q, k) == [j \in 1..(Len(q) - 1) |-> IF j < k THEN q[j] ELSE q[j + 1]]

\* The request at position k of polaroid i is the one for its current url.
IsCurrent(i, k) == loaded[i] = "pending" /\ k = Len(loads[i])

\* OnLoad that leaves the error flag as it is.
OnLoadKeepsError(tex, err, u) == [texture |-> u, error |-> err, warn |-> "none"]

\* onLoad: the state the success callback sets for a texture loaded from u.
OnLoad(tex, err, u) == [texture |-> u, error |-> FALSE, warn |-> "none"]

\* OnError that only logs the warning.
OnErrorOnlyWarns(tex, err, u) == [texture |-> tex, error |-> err, warn |-> u]

\* onError: the state the failure callback sets, and the warning it logs.
OnError(tex, err, u) == [texture |-> tex, error |-> TRUE, warn |-> u]

\* The Photo Area: the material of the photo mesh.
Material(tex, err) ==
    IF tex # NoTexture /\ ~err
    THEN [material |-> "meshBasicMaterial", map |-> tex, color |-> "none"]
    ELSE [material |-> "meshStandardMaterial", map |-> NoTexture,
          color |-> IF err THEN "#550000" ELSE "#cccccc"]

\* The Text Label.
LabelText(err, label) == IF err THEN "Image not found" ELSE label

----------------------------------------------------------------------------
(* UIOverlay: handleFileChange *)

\* The files the user can pick: a name and a MIME type (type, subtype).
Files == {[name |-> "f.png", type |-> <<"image", "png">>],
          [name |-> "g.jpg", type |-> <<"image", "jpeg">>],
          [name |-> "n.txt", type |-> <<"text", "plain">>]}

FileLists == UNION {[1..n -> Files] : n \in 0..MaxFiles}

\* IsImage that accepts every file.
IsImageAny(file) == TRUE

\* file.type.startsWith('image/')
IsImage(file) == file.type[1] = "image"

\* The result of readAsDataURL for a file.
DataURL(file) == <<"data:", file.type[1], file.type[2], file.name>>

RECURSIVE FilesIn(_)
\* The number of files of these selections.
FilesIn(sels) ==
    IF sels = << >> THEN 0 ELSE Len(Head(sels).files) + FilesIn(Tail(sels))

\* The file input was never changed.
NoSelections == selections = << >> /\ uploads = << >>

RECURSIVE ImagesOf(_)
\* The loop over files: the files a reader is created for, in order.
ImagesOf(files) ==
    IF files = << >> THEN << >>
    ELSE IF IsImage(Head(files))
         THEN <<Head(files)>> \o ImagesOf(Tail(files))
         ELSE ImagesOf(Tail(files))

\* The promises handleFileChange creates: one per image file, pending.
NewReaders(files) ==
    [k \in 1..Len(ImagesOf(files)) |->
        [file |-> ImagesOf(files)[k], state |-> "reading", value |-> << >>]]

\* reader.onload: the promise resolves when the result is not empty.
OnReaderLoad(reader, result) ==
    IF result # << >>
    THEN [reader EXCEPT !.state = "resolved", !.value = result]
    ELSE [reader EXCEPT !.state = "loaded empty"]

\* Promise.all(readers) is fulfilled: every promise is resolved.
AllResolved(readers) == \A k \in 1..Len(readers) : readers[k].state = "resolved"

\* The calls after a step that left selection s with these readers:
\* Promise.all(readers).then(urls => onPhotosUpload(urls)).
UploadsAfter(s, readers) ==
    IF AllResolved(readers)
    THEN Append(uploads, [selection |-> s,
                          urls |-> [k \in 1..Len(readers) |-> readers[k].value]])
    ELSE uploads

----------------------------------------------------------------------------
(* UIOverlay: the photo button and the label editor *)

\* A call of a callback prop or of the file input's click().
Call(fn, args) == [fn |-> fn, args |-> args]

\* The props UIOverlay is mounted with; an optional callback is TRUE when
\* it is passed.  uploadedPhotos and photoLabels default to [].
\* For the photo button, onReplacePhotos is passed or not.
ButtonProps ==
    [hasPhotos : BOOLEAN, onReplacePhotos : BOOLEAN,
     onPhotoLabelChange : {TRUE}, uploadedPhotos : {<< >>},
     photoLabels : {<< >>}]

\* For the label editor, onPhotoLabelChange is passed or not.
EditProps ==
    [hasPhotos : BOOLEAN, onReplacePhotos : {TRUE},
     onPhotoLabelChange : BOOLEAN, uploadedPhotos : {<< >>},
     photoLabels : {<< >>}]

DefaultProps ==
    [hasPhotos |-> FALSE, onReplacePhotos |-> TRUE, onPhotoLabelChange |-> TRUE,
     uploadedPhotos |-> << >>, photoLabels |-> << >>]

\* photoLabels[index] || "Happy Memories"
TextOrDefault(labels, index) ==
    IF index + 1 <= Len(labels) /\ labels[index + 1] # ""
    THEN labels[index + 1]
    ELSE "Happy Memories"

\* UIOverlay after its first render with these props.
Mounted(props) ==
    /\ overlayProps = props
    /\ isEditingLabel = FALSE
    /\ editingPhotoIndex = NULL
    /\ tempLabelText = TextOrDefault(props.photoLabels, 0)
    /\ pickerOpen = FALSE
    /\ calls = << >>
    /\ trace = [handler |-> "none", index |-> NULL]

\* HandleReplacePhotos that opens the file picker first.
HandleReplacePhotosClickFirst(props) ==
    <<Call("fileInput.click", << >>)>>
    \o (IF props.onReplacePhotos THEN <<Call("onReplacePhotos", << >>)>> ELSE << >>)

\* handleReplacePhotos: the calls it makes, in order.
HandleReplacePhotos(props) ==
    (IF props.onReplacePhotos THEN <<Call("onReplacePhotos", << >>)>> ELSE << >>)
    \o <<Call("fileInput.click", << >>)>>

\* handleUploadClick: the call it makes.
HandleUploadClick == <<Call("fileInput.click", << >>)>>

\* onClick of the photo button.
PhotoButtonOnClick(props) ==
    IF props.hasPhotos THEN HandleReplacePhotos(props) ELSE HandleUploadClick

\* SaveLabelCalls that reads the text after it was reset.
SaveLabelCallsAfterReset(props, index, text) ==
    IF props.onPhotoLabelChange /\ index # NULL
    THEN <<Call("onPhotoLabelChange", <<index, "Happy Memories">>)>>
    ELSE << >>

\* handleSaveLabel: the calls it makes.
SaveLabelCalls(props, index, text) ==
    IF props.onPhotoLabelChange /\ index # NULL
    THEN <<Call("onPhotoLabelChange", <<index, text>>)>>
    ELSE << >>

\* The photos of the edit modal: the indexes of uploadedPhotos.map.
ModalIndexes(props) == 0..(Len(props.uploadedPhotos) - 1)

\* The input and the save and cancel buttons are rendered: the modal is
\* shown and one of its photos is the one being edited.
EditorShown ==
    isEditingLabel /\ editingPhotoIndex \in ModalIndexes(overlayProps)

\* The calls of onPhotoLabelChange among these calls.
LabelCalls(log) == SelectSeq(log, LAMBDA c : c.fn = "onPhotoLabelChange")

----------------------------------------------------------------------------
(* Actions *)

Init ==
    /\ mode \in TreeMode
    /\ uploadedPhotos = << >>
    /\ photoDisplayMode = "random"
    /\ photoLabels = << >>
    /\ selectedPhotoIndex = NULL
    /\ sequentialIndex = 0
    /\ photoData = << >>
    /\ effectPending = TRUE
    /\ frameTarget = << >>
    /\ hist = [prev |-> NULL, entries |-> 0, changes |-> 0, random |-> FALSE]
    /\ NoItems
    /\ NoSelections
    /\ Mounted(DefaultProps)

\* The parent re-renders Polaroids with another mode.
SetMode(m) ==
    /\ ~effectPending
    /\ m # mode
    /\ mode' = m
    /\ effectPending' = TRUE
    /\ UNCHANGED <<uploadedPhotos, photoDisplayMode, photoLabels,
                   selectedPhotoIndex, sequentialIndex, photoData>>

\* The parent re-renders Polaroids with another photo list.
SetUploadedPhotos(photos) ==
    /\ ~effectPending
    /\ photos # uploadedPhotos
    /\ uploadedPhotos' = photos
    /\ photoData' \in MemoAfterRender(photos, selectedPhotoIndex)
    /\ effectPending' = (Len(photos) # Len(uploadedPhotos))
    /\ UNCHANGED <<mode, photoDisplayMode, photoLabels, selectedPhotoIndex,
                   sequentialIndex>>

\* The parent re-renders Polaroids with another display mode.
SetPhotoDisplayMode(d) ==
    /\ ~effectPending
    /\ d # photoDisplayMode
    /\ photoDisplayMode' = d
    /\ effectPending' = TRUE
    /\ UNCHANGED <<mode, uploadedPhotos, photoLabels, selectedPhotoIndex,
                   sequentialIndex, photoData>>

\* The selection effect runs; the state it sets re-renders the component,
\* which re-runs the memo and schedules the effect again when their
\* dependencies changed.
RunEffect ==
    /\ effectPending
    /\ \E rnd \in RandomIndexes(uploadedPhotos) :
         LET r == EffectResult(mode, uploadedPhotos, selectedPhotoIndex,
                               photoDisplayMode, sequentialIndex, rnd)
         IN /\ selectedPhotoIndex' = r.sel
            /\ sequentialIndex' = r.seq
            /\ photoData' \in MemoAfterRender(uploadedPhotos, r.sel)
            /\ effectPending' = (r.sel # selectedPhotoIndex \/ r.seq # sequentialIndex)
    /\ UNCHANGED <<mode, uploadedPhotos, photoDisplayMode, photoLabels>>

\* The parent re-renders Polaroids with another photoLabels array: neither
\* the memo nor the effect has photoLabels among its dependencies.
SetPhotoLabels(labels) ==
    /\ ~effectPending
    /\ labels # photoLabels
    /\ photoLabels' = labels
    /\ photoData' \in MemoAfterRender(uploadedPhotos, selectedPhotoIndex)
    /\ UNCHANGED <<mode, uploadedPhotos, photoDisplayMode, selectedPhotoIndex,
                   sequentialIndex, effectPending>>

\* One animation frame: every mounted polaroid's useFrame callback runs.
Frame ==
    /\ photoData # << >>
    /\ frameTarget' = [k \in 1..Len(photoData) |->
                         [pos |-> FrameTarget(mode, photoData[k])]
                         @@ FrameBranch(mode, photoData[k])]
    /\ frameTarget' # frameTarget
    /\ UNCHANGED <<mode, uploadedPhotos, photoDisplayMode, photoLabels,
                   selectedPhotoIndex, sequentialIndex, photoData, effectPending>>

----------------------------------------------------------------------------
(* Polaroids: props, selection effect and memo *)

Next ==
    \/ \E m \in TreeMode : SetMode(m) /\ UNCHANGED <<frameTarget, hist, outsidePolaroids>>
    \/ \E photos \in PhotoLists :
          SetUploadedPhotos(photos) /\ UNCHANGED <<frameTarget, hist, outsidePolaroids>>
    \/ \E d \in DisplayModes :
          SetPhotoDisplayMode(d) /\ UNCHANGED <<frameTarget, hist, outsidePolaroids>>
    \/ RunEffect /\ UNCHANGED <<frameTarget, hist, outsidePolaroids>>

Spec == Init /\ [][Next]_vars

(* Polaroids with the render loop.  frameTarget holds the targets of the   *)
(* frame that ran since the last render, if one did.                       *)

NextFrame ==
    \/ \E m \in TreeMode :
          SetMode(m) /\ frameTarget' = << >> /\ UNCHANGED <<hist, outsidePolaroids>>
    \/ \E photos \in PhotoLists :
          SetUploadedPhotos(photos) /\ frameTarget' = << >> /\ UNCHANGED <<hist, outsidePolaroids>>
    \/ \E d \in DisplayModes :
          SetPhotoDisplayMode(d) /\ frameTarget' = << >> /\ UNCHANGED <<hist, outsidePolaroids>>
    \/ RunEffect /\ frameTarget' = << >> /\ UNCHANGED <<hist, outsidePolaroids>>
    \/ Frame /\ UNCHANGED <<hist, outsidePolaroids>>

SpecFrame == Init /\ [][NextFrame]_vars

(* Polaroids with the history of its selections *)

NextHist ==
    \/ \E m \in TreeMode : SetMode(m) /\ UNCHANGED <<frameTarget, hist, outsidePolaroids>>
    \/ \E photos \in PhotoLists :
          /\ SetUploadedPhotos(photos)
          /\ hist' = [hist EXCEPT !.changes = HistCap(hist.changes + 1)]
          /\ UNCHANGED <<frameTarget, outsidePolaroids>>
    \/ \E d \in DisplayModes :
          SetPhotoDisplayMode(d) /\ UNCHANGED <<frameTarget, hist, outsidePolaroids>>
    \/ /\ RunEffect
       /\ hist' = HistAfterEffect(selectedPhotoIndex')
       /\ UNCHANGED <<frameTarget, outsidePolaroids>>

SpecHist == Init /\ [][NextHist]_vars

(* Polaroids with a photoLabels prop that changes *)

NextLabels ==
    \/ \E m \in TreeMode : SetMode(m) /\ UNCHANGED <<frameTarget, hist, outsidePolaroids>>
    \/ \E photos \in PhotoLists :
          SetUploadedPhotos(photos) /\ UNCHANGED <<frameTarget, hist, outsidePolaroids>>
    \/ \E labels \in PhotoLabelLists :
          SetPhotoLabels(labels) /\ UNCHANGED <<frameTarget, hist, outsidePolaroids>>
    \/ RunEffect /\ UNCHANGED <<frameTarget, hist, outsidePolaroids>>

SpecLabels == Init /\ [][NextLabels]_vars

----------------------------------------------------------------------------
(* PolaroidItem: the polaroids in Items, mounted, each loading its url *)

InitItem ==
    /\ mode = "CHAOS"
    /\ uploadedPhotos = << >>
    /\ photoDisplayMode = "random"
    /\ photoLabels = << >>
    /\ selectedPhotoIndex = NULL
    /\ sequentialIndex = 0
    /\ photoData = << >>
    /\ effectPending = FALSE
    /\ frameTarget = << >>
    /\ hist = [prev |-> NULL, entries |-> 0, changes |-> 0, random |-> FALSE]
    /\ url \in [Items -> Urls]
    /\ photoLabel = [i \in Items |-> "Happy Memories"]
    /\ texture = [i \in Items |-> NoTexture]
    /\ error = [i \in Items |-> FALSE]
    /\ loads = [i \in Items |-> <<url[i]>>]
    /\ loaded = [i \in Items |-> "pending"]
    /\ warned = [i \in Items |-> "none"]
    /\ NoSelections
    /\ Mounted(DefaultProps)

\* Polaroid i is re-rendered with another data.url: the effect starts a
\* request for it; texture and error keep their values.
ItemUrlChange(i, u) ==
    /\ u # url[i]
    /\ Len(loads[i]) < MaxInflight
    /\ url' = [url EXCEPT ![i] = u]
    /\ loads' = [loads EXCEPT ![i] = Append(@, u)]
    /\ loaded' = [loaded EXCEPT ![i] = "pending"]
    /\ UNCHANGED <<photoLabel, texture, error, warned>>

\* Polaroid i is re-rendered with another photoLabel.
ItemLabelChange(i, l) ==
    /\ l # photoLabel[i]
    /\ photoLabel' = [photoLabel EXCEPT ![i] = l]
    /\ UNCHANGED <<url, texture, error, loads, loaded, warned>>

\* The request at position k of polaroid i succeeds.
LoadSuccess(i, k) ==
    /\ k \in 1..Len(loads[i])
    /\ LET r == OnLoad(texture[i], error[i], loads[i][k])
       IN /\ texture' = [texture EXCEPT ![i] = r.texture]
          /\ error' = [error EXCEPT ![i] = r.error]
    /\ loaded' = [loaded EXCEPT ![i] = IF IsCurrent(i, k) THEN "ok" ELSE @]
    /\ loads' = [loads EXCEPT ![i] = RemoveAt(@, k)]
    /\ UNCHANGED <<url, photoLabel, warned>>

\* The request at position k of polaroid i fails.
LoadError(i, k) ==
    /\ k \in 1..Len(loads[i])
    /\ LET r == OnError(texture[i], error[i], loads[i][k])
       IN /\ texture' = [texture EXCEPT ![i] = r.texture]
          /\ error' = [error EXCEPT ![i] = r.error]
          /\ warned' = [warned EXCEPT ![i] = r.warn]
    /\ loaded' = [loaded EXCEPT ![i] = IF IsCurrent(i, k) THEN "failed" ELSE @]
    /\ loads' = [loads EXCEPT ![i] = RemoveAt(@, k)]
    /\ UNCHANGED <<url, photoLabel>>

NextItem ==
    \/ \E i \in Items, u \in Urls : ItemUrlChange(i, u) /\ UNCHANGED outsideItem
    \/ \E i \in Items, l \in Labels : ItemLabelChange(i, l) /\ UNCHANGED outsideItem
    \/ \E i \in Items, k \in 1..MaxInflight + 1 :
          LoadSuccess(i, k) /\ UNCHANGED outsideItem
    \/ \E i \in Items, k \in 1..MaxInflight + 1 :
          LoadError(i, k) /\ UNCHANGED outsideItem

SpecItem == InitItem /\ [][NextItem]_vars

----------------------------------------------------------------------------
(* UIOverlay: the file input and its readers *)

\* onChange of the file input with these files.
HandleFileChange(files) ==
    /\ Len(selections) < MaxSelections
    /\ FilesIn(selections) + Len(files) <= MaxFiles
    /\ IF Len(files) = 0
       THEN UNCHANGED <<selections, uploads>>
       ELSE /\ selections' = Append(selections, [files |-> files,
                                                 readers |-> NewReaders(files)])
            /\ uploads' = UploadsAfter(Len(selections) + 1, NewReaders(files))

\* The load event of reader k of selection s, with the file's data URL or
\* with an empty result.
ReaderLoad(s, k, empty) ==
    /\ s \in 1..Len(selections)
    /\ k \in 1..Len(selections[s].readers)
    /\ selections[s].readers[k].state = "reading"
    /\ LET reader == selections[s].readers[k]
           result == IF empty THEN << >> ELSE DataURL(reader.file)
           readers == [selections[s].readers EXCEPT ![k] = OnReaderLoad(reader, result)]
       IN /\ selections' = [selections EXCEPT ![s].readers = readers]
          /\ uploads' = UploadsAfter(s, readers)

\* The read of reader k of selection s fails: the reader has no error
\* handler, its promise stays pending.
ReaderError(s, k) ==
    /\ s \in 1..Len(selections)
    /\ k \in 1..Len(selections[s].readers)
    /\ selections[s].readers[k].state = "reading"
    /\ selections' = [selections EXCEPT ![s].readers[k].state = "failed"]
    /\ UNCHANGED uploads

NextOverlay ==
    \/ \E files \in FileLists : HandleFileChange(files) /\ UNCHANGED outsideOverlay
    \/ \E s \in 1..MaxSelections, k \in 1..MaxFiles, empty \in BOOLEAN :
          ReaderLoad(s, k, empty) /\ UNCHANGED outsideOverlay
    \/ \E s \in 1..MaxSelections, k \in 1..MaxFiles :
          ReaderError(s, k) /\ UNCHANGED outsideOverlay

SpecOverlay == Init /\ [][NextOverlay]_vars

----------------------------------------------------------------------------
(* UIOverlay: the photo button *)

\* Nothing but UIOverlay is mounted.
OverlayAlone ==
    /\ mode = "CHAOS"
    /\ uploadedPhotos = << >>
    /\ photoDisplayMode = "random"
    /\ photoLabels = << >>
    /\ selectedPhotoIndex = NULL
    /\ sequentialIndex = 0
    /\ photoData = << >>
    /\ effectPending = TRUE
    /\ frameTarget = << >>
    /\ hist = [prev |-> NULL, entries |-> 0, changes |-> 0, random |-> FALSE]
    /\ NoItems
    /\ NoSelections

InitButton == OverlayAlone /\ \E props \in ButtonProps : Mounted(props)

\* The parent re-renders UIOverlay with another hasPhotos.
SetHasPhotos(b) ==
    /\ b # overlayProps.hasPhotos
    /\ overlayProps' = [overlayProps EXCEPT !.hasPhotos = b]
    /\ UNCHANGED <<isEditingLabel, editingPhotoIndex, tempLabelText, pickerOpen,
                   calls, trace>>

\* A click on the photo button: the handler makes its calls, the last of
\* which opens the file picker.
ClickPhotoButton ==
    /\ ~pickerOpen
    /\ Len(calls) + Len(PhotoButtonOnClick(overlayProps)) <= MaxCalls
    /\ calls' = calls \o PhotoButtonOnClick(overlayProps)
    /\ pickerOpen' = TRUE
    /\ UNCHANGED <<overlayProps, isEditingLabel, editingPhotoIndex, tempLabelText,
                   trace>>

\* The user closes the file picker without picking a file.
PickerCancel ==
    /\ pickerOpen
    /\ pickerOpen' = FALSE
    /\ UNCHANGED <<overlayProps, isEditingLabel, editingPhotoIndex, tempLabelText,
                   calls, trace>>

\* The user picks these files in the file picker: the change event.
PickFiles(files) ==
    /\ pickerOpen
    /\ HandleFileChange(files)
    /\ pickerOpen' = FALSE
    /\ UNCHANGED <<overlayProps, isEditingLabel, editingPhotoIndex, tempLabelText,
                   calls, trace>>

NextButton ==
    \/ \E b \in BOOLEAN : SetHasPhotos(b) /\ UNCHANGED outsideControls
    \/ ClickPhotoButton /\ UNCHANGED outsideControls
    \/ PickerCancel /\ UNCHANGED outsideControls
    \/ \E files \in FileLists : PickFiles(files) /\ UNCHANGED <<polaroidsVars, itemVars>>

SpecButton == InitButton /\ [][NextButton]_vars

----------------------------------------------------------------------------
(* UIOverlay: the label editor *)

InitEdit == OverlayAlone /\ \E props \in EditProps : Mounted(props)

\* The lists of n photos the modal is shown with; it uses their indexes.
ModalPhotoLists == {[k \in 1..n |-> "a.jpg"] : n \in 0..MaxPhotos}

\* The parent re-renders UIOverlay with another photo list.
SetOverlayPhotos(photos) ==
    /\ photos # overlayProps.uploadedPhotos
    /\ overlayProps' = [overlayProps EXCEPT !.uploadedPhotos = photos]
    /\ UNCHANGED <<isEditingLabel, editingPhotoIndex, tempLabelText, pickerOpen,
                   calls, trace>>

\* The parent re-renders UIOverlay with another photoLabels array.
SetOverlayLabels(labels) ==
    /\ labels # overlayProps.photoLabels
    /\ overlayProps' = [overlayProps EXCEPT !.photoLabels = labels]
    /\ UNCHANGED <<isEditingLabel, editingPhotoIndex, tempLabelText, pickerOpen,
                   calls, trace>>

\* A click on the edit button, which is rendered when hasPhotos.
HandleEditLabel ==
    /\ overlayProps.hasPhotos
    /\ ~isEditingLabel
    /\ isEditingLabel' = TRUE
    /\ trace' = [trace EXCEPT !.handler = "handleEditLabel"]
    /\ UNCHANGED <<overlayProps, editingPhotoIndex, tempLabelText, pickerOpen, calls>>

\* A click on the close button of the modal.
CloseModal ==
    /\ isEditingLabel
    /\ isEditingLabel' = FALSE
    /\ trace' = [trace EXCEPT !.handler = "setIsEditingLabel"]
    /\ UNCHANGED <<overlayProps, editingPhotoIndex, tempLabelText, pickerOpen, calls>>

\* A click on the edit button of photo index, which is rendered for every
\* photo of the modal but the one being edited.
HandlePhotoEdit(index) ==
    /\ isEditingLabel
    /\ index \in ModalIndexes(overlayProps)
    /\ index # editingPhotoIndex
    /\ editingPhotoIndex' = index
    /\ tempLabelText' = TextOrDefault(overlayProps.photoLabels, index)
    /\ trace' = [handler |-> "handlePhotoEdit", index |-> index]
    /\ UNCHANGED <<overlayProps, isEditingLabel, pickerOpen, calls>>

\* The user changes the text of the input.
HandleLabelChange(text) ==
    /\ EditorShown
    /\ text # tempLabelText
    /\ tempLabelText' = text
    /\ trace' = [trace EXCEPT !.handler = "handleLabelChange"]
    /\ UNCHANGED <<overlayProps, isEditingLabel, editingPhotoIndex, pickerOpen, calls>>

\* A click on the save button.
HandleSaveLabel ==
    /\ EditorShown
    /\ Len(LabelCalls(calls)) < MaxSaves
    /\ calls' = calls \o SaveLabelCalls(overlayProps, editingPhotoIndex, tempLabelText)
    /\ editingPhotoIndex' = NULL
    /\ tempLabelText' = "Happy Memories"
    /\ trace' = [trace EXCEPT !.handler = "handleSaveLabel"]
    /\ UNCHANGED <<overlayProps, isEditingLabel, pickerOpen>>

\* A click on the cancel button.
HandleCancelEdit ==
    /\ EditorShown
    /\ editingPhotoIndex' = NULL
    /\ tempLabelText' = "Happy Memories"
    /\ trace' = [trace EXCEPT !.handler = "handleCancelEdit"]
    /\ UNCHANGED <<overlayProps, isEditingLabel, pickerOpen, calls>>

NextEdit ==
    \/ \E b \in BOOLEAN : SetHasPhotos(b) /\ UNCHANGED outsideControls
    \/ \E photos \in ModalPhotoLists :
          SetOverlayPhotos(photos) /\ UNCHANGED outsideControls
    \/ \E labels \in PhotoLabelLists :
          SetOverlayLabels(labels) /\ UNCHANGED outsideControls
    \/ HandleEditLabel /\ UNCHANGED outsideControls
    \/ CloseModal /\ UNCHANGED outsideControls
    \/ \E index \in 0..(MaxPhotos - 1) : HandlePhotoEdit(index) /\ UNCHANGED outsideControls
    \/ \E text \in LabelTexts : HandleLabelChange(text) /\ UNCHANGED outsideControls
    \/ HandleSaveLabel /\ UNCHANGED outsideControls
    \/ HandleCancelEdit /\ UNCHANGED outsideControls

SpecEdit == InitEdit /\ [][NextEdit]_vars

----------------------------------------------------------------------------
(* Properties of Polaroids *)

Selected == {k \in 1..Len(photoData) : photoData[k].isSelected}

\* The effect has run for the current props and state.
Settled == ~effectPending

\* C2: on every frame a polaroid's interpolation target is its pinch
\* position iff mode is PINCH and it is the selected one, else its formed
\* position iff mode is FORMED, else its chaos position; so an unselected
\* polaroid in PINCH mode targets its chaos position.
C2_FrameTargetByModeAndSelected ==
    frameTarget # << >> =>
        /\ Len(frameTarget) = Len(photoData)
        /\ \A k \in 1..Len(frameTarget) :
             LET d == photoData[k]
                 t == frameTarget[k].pos
                 pinch == mode = "PINCH" /\ d.isSelected
             IN /\ (t = d.pinchPos) <=> pinch
                /\ (t = d.targetPos) <=> (~pinch /\ mode = "FORMED")
                /\ (t = d.chaosPos) <=> (~pinch /\ mode # "FORMED")
                /\ (mode = "PINCH" /\ ~d.isSelected) => t = d.chaosPos

\* A frame ran in PINCH mode with a selected and an unselected polaroid.
C2_Witness ==
    /\ frameTarget # << >>
    /\ mode = "PINCH"
    /\ \E j, k \in 1..Len(photoData) :
         /\ photoData[j].isSelected /\ frameTarget[j].pos = photoData[j].pinchPos
         /\ ~photoData[k].isSelected /\ frameTarget[k].pos = photoData[k].chaosPos

\* C3: at most one polaroid has isSelected true.
C3_AtMostOneSelected == Cardinality(Selected) <= 1

\* Several photos are uploaded and one of them is the selected one.
C3_Witness ==
    /\ Len(photoData) >= 2
    /\ mode = "PINCH"
    /\ Cardinality(Selected) = 1

\* C4: once the effect has run in PINCH mode with photos uploaded,
\* selectedPhotoIndex is not null and exactly one uploaded photo is in focus.
C4_PinchFocusesOnePhoto ==
    (Settled /\ mode = "PINCH" /\ Len(uploadedPhotos) > 0) =>
        /\ selectedPhotoIndex # NULL
        /\ Cardinality(Selected) = 1

\* The static layout attributes of the polaroids.
Layout(data) ==
    [k \in 1..Len(data) |-> [chaosPos  |-> data[k].chaosPos,
                             targetPos |-> data[k].targetPos,
                             pinchPos  |-> data[k].pinchPos,
                             speed     |-> data[k].speed]]

\* C5: the static layout attributes stay unchanged while uploadedPhotos is
\* unchanged.
C5_LayoutFixedPerPhotoSet ==
    [][uploadedPhotos' = uploadedPhotos => Layout(photoData') = Layout(photoData)]_vars

\* C8: once the effect has run, selectedPhotoIndex is null whenever mode is
\* not PINCH or no photos are uploaded.
C8_ResetOutsidePinch ==
    (Settled /\ (mode # "PINCH" \/ Len(uploadedPhotos) = 0)) =>
        selectedPhotoIndex = NULL

\* A selection was made (sequentialIndex has advanced) and has been reset
\* after PINCH mode was left.
C8_Witness ==
    /\ Settled
    /\ mode # "PINCH"
    /\ Len(uploadedPhotos) > 0
    /\ sequentialIndex # 0
    /\ selectedPhotoIndex = NULL

\* The selections so far were all made in sequential mode from one photo set.
SequentialFixedSet == ~hist.random /\ hist.changes <= 1

\* C9: in sequential mode with a fixed photo set, the first selection is
\* index 0, each later one is (previous selection + 1) mod n, and
\* sequentialIndex advances by one (mod n) in that step and in no other.
C9_SequentialRoundRobin ==
    [][/\ (/\ selectedPhotoIndex = NULL
           /\ selectedPhotoIndex' # NULL
           /\ photoDisplayMode = "sequential"
           /\ SequentialFixedSet)
          => /\ selectedPhotoIndex' =
                   IF hist.prev = NULL THEN 0
                   ELSE (hist.prev + 1) % Len(uploadedPhotos)
             /\ sequentialIndex' = (sequentialIndex + 1) % Len(uploadedPhotos)
       /\ sequentialIndex' # sequentialIndex
          => (selectedPhotoIndex = NULL /\ selectedPhotoIndex' # NULL)]_vars

\* The third selection from a set of two photos has wrapped around to 0.
C9_Witness ==
    /\ SequentialFixedSet
    /\ photoDisplayMode = "sequential"
    /\ Len(uploadedPhotos) = 2
    /\ hist.entries = 3
    /\ selectedPhotoIndex = 0
    /\ sequentialIndex = 1

\* C10: a non-null selectedPhotoIndex is a valid index of the photo list.
C10_SelectedIndexValid ==
    selectedPhotoIndex # NULL =>
        (0 <= selectedPhotoIndex /\ selectedPhotoIndex < Len(uploadedPhotos))

\* C11: once a photo is selected in PINCH mode, selectedPhotoIndex keeps its
\* value over every step that leaves the mode PINCH and the photo list
\* non-empty, whatever makes the selection effect run again.
C11_SelectionKeptInPinch ==
    [][(/\ selectedPhotoIndex # NULL
        /\ mode = "PINCH" /\ mode' = "PINCH"
        /\ Len(uploadedPhotos) > 0 /\ Len(uploadedPhotos') > 0)
       => selectedPhotoIndex' = selectedPhotoIndex]_vars

\* Photo 0 is selected while sequentialIndex is 0 in sequential mode with two
\* photos: the display mode or the photo count changed after the selection,
\* the effect ran again, and the selection is the one made before.
C11_Witness ==
    /\ Settled
    /\ mode = "PINCH"
    /\ photoDisplayMode = "sequential"
    /\ Len(uploadedPhotos) = 2
    /\ selectedPhotoIndex = 0
    /\ sequentialIndex = 0

\* C12: the label of polaroid i is photoLabels[i] when that entry is a
\* non-empty string and "Happy Memories" otherwise, also after photoLabels
\* changed while photo list and selection stayed as they were.
C12_LabelFollowsPhotoLabels ==
    \A k \in 1..Len(photoData) :
       LabelText(FALSE, photoData[k].label) =
          IF k <= Len(photoLabels) /\ photoLabels[k] # ""
          THEN photoLabels[k]
          ELSE "Happy Memories"

----------------------------------------------------------------------------
(* Properties of PolaroidItem *)

\* C1: when the request for a polaroid's current url fails, it is in the
\* error state: the warning names the url, the photo area shows the fallback
\* material without a texture, the label reads "Image not found"; texture
\* and error of every other polaroid are as before.
C1_FailedLoadShowsPlaceholder ==
    [][\A i \in Items :
         (loaded[i] = "pending" /\ loaded'[i] = "failed") =>
            /\ error'[i]
            /\ warned'[i] = url[i]
            /\ Material(texture'[i], error'[i]) =
                  [material |-> "meshStandardMaterial", map |-> NoTexture,
                   color |-> "#550000"]
            /\ LabelText(error'[i], photoLabel'[i]) = "Image not found"
            /\ \A j \in Items \ {i} :
                  texture'[j] = texture[j] /\ error'[j] = error[j]]_vars

\* The request for the current url of a polaroid that holds a texture has
\* failed, while another polaroid shows its texture.
C1_Witness ==
    \E i \in Items :
       /\ loaded[i] = "failed"
       /\ error[i]
       /\ warned[i] = url[i]
       /\ texture[i] # NoTexture
       /\ \E j \in Items \ {i} : texture[j] # NoTexture /\ ~error[j]

\* C6: once all requests of a polaroid have completed, texture and error are
\* those of the request for its current url.
C6_CurrentUrlDecides ==
    \A i \in Items :
       loads[i] = << >> =>
          /\ loaded[i] = "ok" => (texture[i] = url[i] /\ ~error[i])
          /\ loaded[i] = "failed" => error[i]

\* C16: when the request for a polaroid's current url succeeds, error is
\* false and the photo area shows the texture loaded from that url, whatever
\* error was before; when it fails, the photo area shows the fallback
\* material without a texture, whatever texture is held.
C16_CurrentLoadOutcomeDisplayed ==
    [][\A i \in Items :
         /\ (loaded[i] = "pending" /\ loaded'[i] = "ok") =>
               /\ ~error'[i]
               /\ Material(texture'[i], error'[i]) =
                     [material |-> "meshBasicMaterial", map |-> url[i],
                      color |-> "none"]
         /\ (loaded[i] = "pending" /\ loaded'[i] = "failed") =>
               /\ Material(texture'[i], error'[i]).material =
                     "meshStandardMaterial"
               /\ Material(texture'[i], error'[i]).map = NoTexture]_vars

\* One polaroid shows the texture of its current url after the request for
\* an earlier url had failed; another one, whose current request failed,
\* still holds the texture of an earlier url.
C16_Witness ==
    /\ \E i \in Items :
          /\ loaded[i] = "ok"
          /\ warned[i] \notin {"none", url[i]}
          /\ texture[i] = url[i]
          /\ ~error[i]
    /\ \E j \in Items :
          /\ loaded[j] = "failed"
          /\ texture[j] \notin {NoTexture, url[j]}
          /\ error[j]

----------------------------------------------------------------------------
(* Properties of UIOverlay *)

\* Every read of selection s has finished, whatever its outcome.
ReadsFinished(s) ==
    \A k \in 1..Len(selections[s].readers) :
       selections[s].readers[k].state # "reading"

CallsFor(s) == {c \in 1..Len(uploads) : uploads[c].selection = s}

\* C7: once every read of a selection has finished, onPhotosUpload has been
\* called exactly once for it, whatever the outcome of each read.
C7_UploadCalledOncePerSelection ==
    \A s \in 1..Len(selections) :
       /\ Cardinality(CallsFor(s)) <= 1
       /\ ReadsFinished(s) => Cardinality(CallsFor(s)) = 1

\* The image files of a file list, in the order of the list.
ImageFiles(files) == SelectSeq(files, LAMBDA f : f.type[1] = "image")

\* C13: the argument of a call of onPhotosUpload is the list of the data
\* URLs of the image files of its selection, one per image file and in the
\* order of the file list, whatever the order in which the reads completed;
\* the call is made once all the reads have delivered their URLs; no call
\* is made for an empty file list.
C13_UploadArgument ==
    /\ \A c \in 1..Len(uploads) :
          LET files == selections[uploads[c].selection].files
          IN /\ Len(files) > 0
             /\ uploads[c].urls =
                   [k \in 1..Len(ImageFiles(files)) |-> DataURL(ImageFiles(files)[k])]
    /\ \A s \in 1..Len(selections) :
          LET readers == selections[s].readers
          IN /\ Len(readers) = Len(ImageFiles(selections[s].files))
             /\ (\A k \in 1..Len(readers) : readers[k].state = "resolved")
                   => Cardinality(CallsFor(s)) = 1

\* One selection held a text file followed by two images, and
\* onPhotosUpload was called with the data URLs of the two images in the
\* order of the file list.
C13_Witness ==
    \E c \in 1..Len(uploads) :
       /\ Len(selections[uploads[c].selection].files) = 3
       /\ ~IsImage(selections[uploads[c].selection].files[1])
       /\ Len(uploads[c].urls) = 2
       /\ uploads[c].urls[1] # uploads[c].urls[2]

\* C14: a click on the photo button while hasPhotos is true calls
\* onReplacePhotos, when it is passed, exactly once and then opens the file
\* picker; a click while hasPhotos is false only opens the file picker; no
\* later step, whether the user picks files or not, makes another call.
C14_ReplaceBeforePicker ==
    [][(calls' # calls \/ (~pickerOpen /\ pickerOpen')) =>
          /\ ~pickerOpen /\ pickerOpen'
          /\ calls' = calls \o
                (IF overlayProps.hasPhotos /\ overlayProps.onReplacePhotos
                 THEN <<Call("onReplacePhotos", << >>), Call("fileInput.click", << >>)>>
                 ELSE <<Call("fileInput.click", << >>)>>)]_vars

\* The button was clicked with photos, the picker was closed without a
\* file, and the button was clicked again without photos.
C14_Witness ==
    /\ calls = <<Call("onReplacePhotos", << >>), Call("fileInput.click", << >>),
                 Call("fileInput.click", << >>)>>
    /\ selections = << >>
    /\ ~overlayProps.hasPhotos
    /\ pickerOpen

\* C15: onPhotoLabelChange is called by handleSaveLabel only, once per
\* save, with the index last passed to handlePhotoEdit and the text of the
\* input, and a photo is being edited when it is called; after
\* handleSaveLabel and after handleCancelEdit editingPhotoIndex is null and
\* the text is "Happy Memories".
C15_SaveCallsOnceWithEditedLabel ==
    [][/\ calls' # calls =>
             /\ trace'.handler = "handleSaveLabel"
             /\ editingPhotoIndex # NULL
             /\ editingPhotoIndex = trace.index
             /\ calls' = Append(calls, Call("onPhotoLabelChange",
                                            <<editingPhotoIndex, tempLabelText>>))
       /\ (/\ trace'.handler = "handleSaveLabel"
           /\ editingPhotoIndex # NULL /\ editingPhotoIndex' = NULL
           /\ overlayProps.onPhotoLabelChange) =>
             Len(calls') = Len(calls) + 1
       /\ trace'.handler \in {"handleSaveLabel", "handleCancelEdit"} =>
             (editingPhotoIndex' = NULL /\ tempLabelText' = "Happy Memories")]_vars

\* The edit went from photo 0 to photo 1, whose label was not set, the
\* user typed a text and saved it.
C15_Witness ==
    /\ trace = [handler |-> "handleSaveLabel", index |-> 1]
    /\ overlayProps.photoLabels = << >>
    /\ calls = <<Call("onPhotoLabelChange", <<1, "Xmas 2024">>)>>
    /\ editingPhotoIndex = NULL
    /\ tempLabelText = "Happy Memories"

=============================================================================
